---- MODULE Spec2Model ----
(***************************************************************************)
(* Model of the in-memory file systems of package simplefs: the tree-based *)
(* MemFS with dirNode, writeCloser, memFile and memDir, and the map-based  *)
(* MemFS of mem_fs.go.                                                     *)
(*                                                                         *)
(* Strings are tuples of one-character strings, so that strings.Split and  *)
(* the byte-wise string order used by sort are computed, not assumed.      *)
(* Byte slices are (array, length) pairs over a heap of backing arrays, so *)
(* that the sharing between a bytes.Buffer, dirNode.B and a reader is      *)
(* part of the state.                                                      *)
(***************************************************************************)
EXTENDS Integers, Sequences, FiniteSets, TLC

VARIABLES
    nodes,      \* heap of dirNode values, index = pointer; <<>> while fs.root = nil
    arrays,     \* heap of byte backing arrays, index = array identity
    writers,    \* the writeCloser handles handed out so far
    readers,    \* the File handles (memFile / memDir) handed out so far
    last,       \* the most recent call and what it returned
    load,       \* the callers' workload: the names and bytes they use and how
                \* many handles they obtain; fixed from the start
    mu,         \* fs.l, the sync.RWMutex of the MemFS
    pc,         \* for each concurrent caller, the call it is in and where
    files       \* fs.m of the map-based MemFS: stored path -> its bytes.Buffer

vars == <<nodes, arrays, writers, readers, last, load, mu, pc, files>>

---------------------------------------------------------------------------
(* Bounds of the exploration *)

MaxBuf == 1        \* bytes a handle buffers, beyond those the workload adds
MaxCloses == 1     \* Close calls per handle, beyond those the workload adds
MaxReaders == 1    \* File handles open at once
MaxCallers == 2    \* callers inside MemFS at once

\* Workloads.  Every one draws its names, the bytes each writer writes and its
\* handle counts from small sets; none restricts the order of the calls.
TreeLoad ==
    [names |-> { <<"a">>, <<"a", "/", "b">>, <<".">>, <<".", ".">>, <<".", "/", "a">> },
     bytes |-> [h \in 1..2 |-> {11}], writers |-> 1..2, readers |-> MaxReaders,
     buf |-> MaxBuf,
     closes |-> MaxCloses]

ContentLoad ==
    [names |-> { <<"a">> },
     bytes |-> [h \in 1..3 |-> {10 + h}], writers |-> 1..3, readers |-> MaxReaders,
     buf |-> MaxBuf + 1,
     closes |-> MaxCloses]

CloseLoad ==
    [names |-> { <<"a">> },
     bytes |-> [h \in 1..2 |-> {10 + h}], writers |-> 1..2, readers |-> MaxReaders,
     buf |-> MaxBuf,
     closes |-> MaxCloses + 1]

ListLoad ==
    [names |-> { <<"a">>, <<"a", "/", "b">>, <<".">>, <<".", ".">> },
     bytes |-> [h \in 1..2 |-> {11}], writers |-> 1..2, readers |-> MaxReaders,
     buf |-> MaxBuf,
     closes |-> MaxCloses]

LockLoad ==
    [names |-> { <<"a">> },
     bytes |-> [h \in 1..2 |-> {11}], writers |-> 1..2, readers |-> MaxReaders,
     buf |-> MaxBuf,
     closes |-> MaxCloses]

CursorLoad ==
    [names |-> { <<".">>, <<"a">>, <<"b">> },
     bytes |-> [h \in 1..2 |-> {11}], writers |-> 1..2, readers |-> MaxReaders + 1,
     buf |-> MaxBuf,
     closes |-> MaxCloses]

\* Page sizes passed to File.ReadDir, buffer sizes passed to File.Read.
PageSizes == {-1, 0, 1, 2}
CursorPages == {-1, 1}
ReadSizes == {1, 2}

---------------------------------------------------------------------------
(* Strings *)

Min(x, y) == IF x < y THEN x ELSE y

CharCode(c) ==
    CASE c = "." -> 46
      [] c = "/" -> 47
      [] c = "a" -> 97
      [] c = "b" -> 98

\* Go's < on strings: byte-wise lexicographic.
RECURSIVE StrLess(_, _)
StrLess(x, y) ==
    IF y = <<>> THEN FALSE
    ELSE IF x = <<>> THEN TRUE
    ELSE IF CharCode(Head(x)) # CharCode(Head(y))
         THEN CharCode(Head(x)) < CharCode(Head(y))
    ELSE StrLess(Tail(x), Tail(y))

RECURSIVE SplitFrom(_, _, _)
SplitFrom(s, cur, out) ==
    IF s = <<>> THEN Append(out, cur)
    ELSE IF Head(s) = "/" THEN SplitFrom(Tail(s), <<>>, Append(out, cur))
    ELSE SplitFrom(Tail(s), Append(cur, Head(s)), out)

\* nameToPath: strings.Split(name, "/")
nameToPath(name) == SplitFrom(name, <<>>, <<>>)

Dot == <<".">>
DotDot == <<".", ".">>

---------------------------------------------------------------------------
(* Byte slices *)

\* arr = -1: the nil slice.  arr = 0: a non-nil slice of capacity 0
\* (make([]byte, 0)).  arr >= 1: a slice of arrays[arr] starting at 0.
NilSlice == [arr |-> -1, len |-> 0]
ZeroSlice == [arr |-> 0, len |-> 0]

Content(arrs, s) == IF s.arr < 1 THEN <<>> ELSE SubSeq(arrs[s.arr], 1, s.len)

\* Store bytes p into array a at offset off (0-based), keeping the rest.
Overwrite(data, off, p) ==
    [i \in 1..(IF Len(data) > off + Len(p) THEN Len(data) ELSE off + Len(p)) |->
        IF i > off /\ i <= off + Len(p) THEN p[i - off] ELSE data[i]]

\* append(s, p...): returns s itself when p is empty, allocates when s has no
\* spare capacity (nil or capacity 0), and otherwise stores in place behind
\* s.len in the array s shares.  Arrays made by bytes.Buffer and by append
\* have spare capacity beyond every length the bounds allow.  New arrays go
\* behind the ones of the writers' buffers.
appendBytes(arrs, s, p) ==
    IF p = <<>> THEN [arrs |-> arrs, s |-> s]
    ELSE IF s.arr < 1
         THEN [arrs |-> Append(arrs, p), s |-> [arr |-> Len(arrs) + 1, len |-> Len(p)]]
    ELSE [arrs |-> [arrs EXCEPT ![s.arr] = Overwrite(@, s.len, p)],
          s |-> [arr |-> s.arr, len |-> s.len + Len(p)]]

\* bytes.Buffer.Write on the buffer of writer h: the first write makes the
\* buffer's array, later ones store in place behind buf.len.  The array of
\* writer h is arrays[h]: a buffer has one array for as long as it holds no
\* more than the 64 bytes bytes.Buffer allocates at first.
bufferWrite(arrs, h, buf, p) ==
    IF p = <<>> THEN [arrs |-> arrs, s |-> buf]
    ELSE IF buf.arr = -1
         THEN [arrs |-> [arrs EXCEPT ![h] = p], s |-> [arr |-> h, len |-> Len(p)]]
    ELSE [arrs |-> [arrs EXCEPT ![buf.arr] = Overwrite(@, buf.len, p)],
          s |-> [arr |-> buf.arr, len |-> buf.len + Len(p)]]

\* getBytes: buf.Bytes(), or a fresh empty slice when the buffer was never
\* written.
getBytes(buf) == IF buf.arr = -1 THEN ZeroSlice ELSE buf

---------------------------------------------------------------------------
(* dirNode *)

Root == 1

newNode(name, parent, b) ==
    [Name |-> name, Parent |-> parent, Children |-> <<>>, B |-> b]

\* MemFS.init: allocate the root directory on first use.
init(ns) == IF ns = <<>> THEN <<newNode(<<>>, 0, NilSlice)>> ELSE ns

IsDirectory(ns, n) == ns[n].B.arr = -1

\* dirNodeSlice.Get without the comparison of names.
sliceGetAny(ns, s, name) == IF s = <<>> THEN 0 ELSE Head(s)

\* dirNodeSlice.Get: first child with that name, 0 for nil.
RECURSIVE sliceGet(_, _, _)
sliceGet(ns, s, name) ==
    IF s = <<>> THEN 0
    ELSE IF ns[Head(s)].Name = name THEN Head(s)
    ELSE sliceGet(ns, Tail(s), name)

\* dirNode.Get: read resolution, 0 for nil.
RECURSIVE Get(_, _, _)
Get(ns, n, path) ==
    LET p == Head(path)
        next == IF p = Dot THEN n
                ELSE IF p = DotDot THEN ns[n].Parent
                ELSE sliceGet(ns, ns[n].Children, p)
    IN  IF next = 0 THEN 0
        ELSE IF Len(path) > 1 THEN Get(ns, next, Tail(path))
        ELSE next

\* sort.Sort(node.Children): ascending by Name (insertion of each element).
RECURSIVE insertSorted(_, _, _)
insertSorted(ns, s, c) ==
    IF s = <<>> THEN <<c>>
    ELSE IF StrLess(ns[c].Name, ns[Head(s)].Name) THEN <<c>> \o s
    ELSE <<Head(s)>> \o insertSorted(ns, Tail(s), c)

RECURSIVE sortChildren(_, _)
sortChildren(ns, s) ==
    IF s = <<>> THEN <<>>
    ELSE insertSorted(ns, sortChildren(ns, Tail(s)), Head(s))

\* dirNode.AddChild: returns the new heap and the child's pointer.
AddChild(ns, n, name, b) ==
    LET child == Len(ns) + 1
        ns1 == Append(ns, newNode(name, n, b))
    IN  [ns |-> [ns1 EXCEPT ![n].Children = sortChildren(ns1, Append(@, child))],
         node |-> child]

\* dirNode.AddDescendant adding a child for every segment without looking
\* for one of that name.
RECURSIVE AddDescendantAlways(_, _, _, _)
AddDescendantAlways(ns, n, b, path) ==
    IF Len(path) > 1
    THEN LET r == AddChild(ns, n, Head(path), NilSlice)
         IN  AddDescendantAlways(r.ns, r.node, b, Tail(path))
    ELSE AddChild(ns, n, Head(path), b)

\* dirNode.AddDescendant
RECURSIVE AddDescendant(_, _, _, _)
AddDescendant(ns, n, b, path) ==
    LET childName == Head(path)
        found == sliceGet(ns, ns[n].Children, childName)
    IN  IF Len(path) > 1
        THEN LET r == IF found = 0 THEN AddChild(ns, n, childName, NilSlice)
                      ELSE [ns |-> ns, node |-> found]
             IN  AddDescendant(r.ns, r.node, b, Tail(path))
        ELSE IF found = 0 THEN AddChild(ns, n, childName, b)
        ELSE [ns |-> ns, node |-> found]

\* dirNode.GetOrAdd
GetOrAdd(ns, n, b, path) ==
    LET got == Get(ns, n, path)
    IN  IF got # 0 THEN [ns |-> ns, node |-> got]
        ELSE AddDescendant(ns, n, b, path)

\* dirNode.Path: the names from the root down, each after a "/".
RECURSIVE Path(_, _)
Path(ns, n) ==
    IF ns[n].Parent = 0 THEN ns[n].Name
    ELSE Path(ns, ns[n].Parent) \o <<"/">> \o ns[n].Name

\* dirNode.DFS: the node, then each child's subtree in the order of Children.
RECURSIVE DFS(_, _)
RECURSIVE dfsEach(_, _)
DFS(ns, n) == <<n>> \o dfsEach(ns, ns[n].Children)

dfsEach(ns, s) ==
    IF s = <<>> THEN <<>> ELSE DFS(ns, Head(s)) \o dfsEach(ns, Tail(s))

---------------------------------------------------------------------------
(* The result of the most recent call *)

NilEntries == [nil |-> TRUE, s |-> <<>>]

\* op: the call; name: its path argument (or the handle's); h: the handle it
\* returned or was called on; n: its count argument or result; rem: entries
\* a directory handle had left when it was called; names: what ListFiles
\* returned.
Result(op, name, h, n, err, entries, bytes) ==
    [op |-> op, name |-> name, h |-> h, n |-> n, err |-> err,
     entries |-> entries, bytes |-> bytes, rem |-> 0, names |-> <<>>]

NoCall == Result("none", <<>>, 0, 0, "nil", NilEntries, <<>>)

---------------------------------------------------------------------------
(* Read side: MemFS.Open, MemFS.ReadDir, memFile, memDir *)

\* The listing MemFS.ReadDir builds: one dirEntry per child, then sort.Slice
\* by name.
\* The comparison of sort.Slice turned round.
RECURSIVE insertEntryDesc(_, _)
insertEntryDesc(s, e) ==
    IF s = <<>> THEN <<e>>
    ELSE IF StrLess(Head(s).name, e.name) THEN <<e>> \o s
    ELSE <<Head(s)>> \o insertEntryDesc(Tail(s), e)

RECURSIVE insertEntry(_, _)
insertEntry(s, e) ==
    IF s = <<>> THEN <<e>>
    ELSE IF StrLess(e.name, Head(s).name) THEN <<e>> \o s
    ELSE <<Head(s)>> \o insertEntry(Tail(s), e)

RECURSIVE sortEntries(_)
sortEntries(s) ==
    IF s = <<>> THEN <<>> ELSE insertEntry(sortEntries(Tail(s)), Head(s))

\* MemFS.ReadDir without its IsDirectory check.
fsReadDirOfAny(ns0, dir) ==
    LET ns == init(ns0)
        node == Get(ns, Root, nameToPath(dir))
    IN  IF node = 0
        THEN [err |-> "ErrNotFound", entries |-> NilEntries]
        ELSE [err |-> "nil",
              entries |-> [nil |-> FALSE,
                           s |-> sortEntries(
                               [i \in 1..Len(ns[node].Children) |->
                                   [name |-> ns[ns[node].Children[i]].Name,
                                    isDir |-> IsDirectory(ns, ns[node].Children[i])]])]]

\* MemFS.ReadDir as a function of the tree: [err, entries].
fsReadDir(ns0, dir) ==
    LET ns == init(ns0)
        node == Get(ns, Root, nameToPath(dir))
    IN  IF node = 0 \/ ~IsDirectory(ns, node)
        THEN [err |-> "ErrNotFound", entries |-> NilEntries]
        ELSE [err |-> "nil",
              entries |-> [nil |-> FALSE,
                           s |-> sortEntries(
                               [i \in 1..Len(ns[node].Children) |->
                                   [name |-> ns[ns[node].Children[i]].Name,
                                    isDir |-> IsDirectory(ns, ns[node].Children[i])]])]]

\* MemFS.ListFiles as a function of the tree: [err, names]. On a path with
\* no node the callback calls Path on a nil *dirNode and the call panics.
fsListFiles(ns0, dir) ==
    LET ns == init(ns0)
        node == Get(ns, Root, nameToPath(dir))
    IN  IF node # 0 /\ ~IsDirectory(ns, node)
        THEN [err |-> "ErrNotFound", names |-> <<>>]
        ELSE IF node = 0
        THEN [err |-> "panic", names |-> <<>>]
        ELSE [err |-> "nil",
              names |-> [i \in 1..Len(DFS(ns, node)) |-> Path(ns, DFS(ns, node)[i])]]

\* The handle MemFS.Open returns, as a function of the tree: a memDir that
\* has listed nothing yet, or a memFile over bytes.NewBuffer(node.B).
\* acc, first, pn, calls and eof record what the handle has returned so far;
\* for a memFile, snap is the content its path had as Open returned and data
\* the bytes Read has returned.
NoPage == [used |-> FALSE, same |-> TRUE, n |-> 0]

newFile(kind, name, b) ==
    [kind |-> kind, name |-> name,
     buf |-> [arr |-> b.arr, len |-> b.len, off |-> 0],
     entries |-> NilEntries,
     acc |-> <<>>, first |-> <<>>, pn |-> NoPage, calls |-> 0, eof |-> FALSE,
     snap |-> <<>>, data |-> <<>>]

fsOpen(ns0, name) ==
    LET ns == init(ns0)
        node == Get(ns, Root, nameToPath(name))
    IN  IF node = 0 THEN [err |-> "ErrNotFound", kind |-> "nil", file |-> NoCall]
        ELSE IF IsDirectory(ns, node)
        THEN [err |-> "nil", kind |-> "memDir", file |-> newFile("memDir", name, NilSlice)]
        ELSE [err |-> "nil", kind |-> "memFile",
              file |-> newFile("memFile", name, ns[node].B)]

\* len(dir.readDirEntries) once memDir.ReadDir has taken its snapshot: the
\* entries the handle has left when a call starts.
remaining(ns, r) ==
    IF r.entries.nil THEN Len(fsReadDir(ns, r.name).entries.s)
    ELSE Len(r.entries.s)

\* memDir.ReadDir taking a new snapshot whenever none is left, not only when
\* it has none yet.
memDirReadDirRefetch(ns, r, n) ==
    LET fetched == IF r.entries.nil \/ Len(r.entries.s) = 0
                   THEN fsReadDir(ns, r.name)
                   ELSE [err |-> "nil", entries |-> r.entries]
        cur == fetched.entries
        size == IF n < 0 \/ n > Len(cur.s) THEN Len(cur.s) ELSE n
    IN  IF fetched.err # "nil"
        THEN [page |-> NilEntries, err |-> fetched.err, entries |-> r.entries]
        ELSE IF Len(cur.s) = 0
        THEN [page |-> cur, err |-> IF n < 0 THEN "nil" ELSE "EOF", entries |-> cur]
        ELSE [page |-> [nil |-> FALSE, s |-> SubSeq(cur.s, 1, size)],
              err |-> "nil",
              entries |-> [nil |-> FALSE, s |-> SubSeq(cur.s, size + 1, Len(cur.s))]]

\* memDir.ReadDir reporting io.EOF with the page that empties the snapshot.
memDirReadDirEarlyEOF(ns, r, n) ==
    LET fetched == IF r.entries.nil THEN fsReadDir(ns, r.name)
                   ELSE [err |-> "nil", entries |-> r.entries]
        cur == fetched.entries
        size == IF n < 0 \/ n > Len(cur.s) THEN Len(cur.s) ELSE n
    IN  IF fetched.err # "nil"
        THEN [page |-> NilEntries, err |-> fetched.err, entries |-> r.entries]
        ELSE IF Len(cur.s) = 0
        THEN [page |-> cur, err |-> IF n < 0 THEN "nil" ELSE "EOF", entries |-> cur]
        ELSE [page |-> [nil |-> FALSE, s |-> SubSeq(cur.s, 1, size)],
              err |-> IF n >= 0 /\ size = Len(cur.s) THEN "EOF" ELSE "nil",
              entries |-> [nil |-> FALSE, s |-> SubSeq(cur.s, size + 1, Len(cur.s))]]

\* memDir.ReadDir as a function of the handle: the page, the error and the
\* handle's readDirEntries afterwards.
memDirReadDir(ns, r, n) ==
    LET fetched == IF r.entries.nil THEN fsReadDir(ns, r.name)
                   ELSE [err |-> "nil", entries |-> r.entries]
        cur == fetched.entries
        size == IF n < 0 \/ n > Len(cur.s) THEN Len(cur.s) ELSE n
    IN  IF fetched.err # "nil"
        THEN [page |-> NilEntries, err |-> fetched.err, entries |-> r.entries]
        ELSE IF Len(cur.s) = 0
        THEN [page |-> cur, err |-> IF n < 0 THEN "nil" ELSE "EOF", entries |-> cur]
        ELSE [page |-> [nil |-> FALSE, s |-> SubSeq(cur.s, 1, size)],
              err |-> "nil",
              entries |-> [nil |-> FALSE, s |-> SubSeq(cur.s, size + 1, Len(cur.s))]]

\* memFile.ReadDir returning an empty listing and no error.
memFileReadDirEmpty(r, n) == [page |-> [nil |-> FALSE, s |-> <<>>], err |-> "nil"]

\* memFile.ReadDir
memFileReadDir(r, n) == [page |-> NilEntries, err |-> "path is a file"]

\* memDir.Read
memDirRead(r, k) == [n |-> 0, err |-> "path is a directory"]

\* bytes.Buffer.Read on the reader's buffer with a destination of k bytes.
bufferRead(arrs, b, k) ==
    IF b.off >= b.len
    THEN [data |-> <<>>, err |-> IF k = 0 THEN "nil" ELSE "EOF",
          buf |-> [b EXCEPT !.len = 0, !.off = 0]]
    ELSE LET m == Min(k, b.len - b.off)
         IN  [data |-> SubSeq(arrs[b.arr], b.off + 1, b.off + m), err |-> "nil",
              buf |-> [b EXCEPT !.off = b.off + m]]

\* ioutil.ReadAll on a File: Read until io.EOF, which is not reported.
RECURSIVE readAllFrom(_, _, _)
readAllFrom(arrs, b, got) ==
    LET r == bufferRead(arrs, b, b.len + 1)
    IN  IF r.err = "EOF" THEN [err |-> "nil", bytes |-> got]
        ELSE readAllFrom(arrs, r.buf, got \o r.data)

ReadAll(arrs, f) ==
    IF f.kind = "memDir" THEN [err |-> memDirRead(f, 1).err, bytes |-> <<>>]
    ELSE readAllFrom(arrs, f.buf, <<>>)

\* Open(name) followed by ReadAll, as the harness's assertFileContents does.
OpenReadAll(ns, arrs, name) ==
    LET o == fsOpen(ns, name)
    IN  IF o.err # "nil" THEN [err |-> o.err, bytes |-> <<>>]
        ELSE ReadAll(arrs, o.file)

---------------------------------------------------------------------------
(* Write side: MemFS.Create, MemFS.Append, writeCloser *)

\* origin, snap, wasFile and clean record how the handle was obtained: the
\* call, what the path held then, and whether another handle has committed
\* to the same node since.  sent is what the buffer held at the first Close,
\* late whether the handle was written to after it.
newWriter(name, fn, got, origin, snap, wasFile) ==
    [name |-> name, closeFn |-> fn, got |-> got, buf |-> NilSlice,
     closes |-> 0, origin |-> origin, snap |-> snap, wasFile |-> wasFile,
     clean |-> TRUE, sent |-> <<>>, late |-> FALSE]

\* MemFS.Create publishing its node when called, not when the handle is
\* closed.
CreateEager(name) ==
    /\ Len(writers) < Cardinality(load.writers)
    /\ nodes' = LET r == GetOrAdd(init(nodes), Root, ZeroSlice, nameToPath(name))
                IN  [r.ns EXCEPT ![r.node].B = ZeroSlice]
    /\ writers' = Append(writers, newWriter(name, "addNode", 0, "Create", <<>>, FALSE))
    /\ last' = Result("Create", name, Len(writers) + 1, 0, "nil", NilEntries, <<>>)
    /\ UNCHANGED <<arrays, readers, load>>

\* MemFS.Create
Create(name) ==
    /\ Len(writers) < Cardinality(load.writers)
    /\ nodes' = init(nodes)
    /\ writers' = Append(writers, newWriter(name, "addNode", 0, "Create", <<>>, FALSE))
    /\ last' = Result("Create", name, Len(writers) + 1, 0, "nil", NilEntries, <<>>)
    /\ UNCHANGED <<arrays, readers, load>>

\* MemFS.Append without its "got == nil" branch.
appendWriterNoFallback(ns, arrs, name) ==
    LET got == Get(ns, Root, nameToPath(name))
    IN  newWriter(name, "updateNode", got, "Append",
                  IF got = 0 THEN <<>> ELSE Content(arrs, ns[got].B),
                  got # 0 /\ ~IsDirectory(ns, got))

\* MemFS.Append: the handle it returns.
appendWriter(ns, arrs, name) ==
    LET got == Get(ns, Root, nameToPath(name))
    IN  IF got = 0 THEN newWriter(name, "addNode", 0, "Append", <<>>, FALSE)
        ELSE newWriter(name, "updateNode", got, "Append",
                       Content(arrs, ns[got].B), ~IsDirectory(ns, got))

\* MemFS.Append
FsAppend(name) ==
    /\ Len(writers) < Cardinality(load.writers)
    /\ nodes' = init(nodes)
    /\ writers' = Append(writers, appendWriter(nodes', arrays, name))
    /\ last' = Result("Append", name, Len(writers) + 1, 0, "nil", NilEntries, <<>>)
    /\ UNCHANGED <<arrays, readers, load>>

\* writeCloser.Write: bytes.Buffer.Write on the handle's buffer, whether or
\* not the handle was closed before.
Write(h, p) ==
    /\ h \in 1..Len(writers)
    /\ writers[h].buf.len < load.buf
    /\ LET r == bufferWrite(arrays, h, writers[h].buf, p)
       IN  /\ arrays' = r.arrs
           /\ writers' = [writers EXCEPT ![h].buf = r.s,
                                         ![h].late = @ \/ writers[h].closes >= 1]
    /\ last' = Result("Write", writers[h].name, h, Len(p), "nil", NilEntries, p)
    /\ UNCHANGED <<nodes, readers, load>>

\* The addNode closure of MemFS.Create.
addNode(ns, arrs, w) ==
    LET b == getBytes(w.buf)
        r == GetOrAdd(ns, Root, b, nameToPath(w.name))
    IN  [ns |-> [r.ns EXCEPT ![r.node].B = b], arrs |-> arrs, node |-> r.node]

\* The updateNode closure appending to the content the path had when Append
\* was called, in a new array.
updateNodeOfSnapshot(ns, arrs, w) ==
    LET b == getBytes(w.buf)
        all == w.snap \o Content(arrs, b)
        r == IF all = <<>> THEN [arrs |-> arrs, s |-> ZeroSlice]
             ELSE appendBytes(arrs, NilSlice, all)
    IN  [ns |-> [ns EXCEPT ![w.got].B = r.s], arrs |-> r.arrs, node |-> w.got]

\* The updateNode closure of MemFS.Append.
updateNode(ns, arrs, w) ==
    LET b == getBytes(w.buf)
        r == appendBytes(arrs, ns[w.got].B, Content(arrs, b))
    IN  [ns |-> [ns EXCEPT ![w.got].B = r.s], arrs |-> r.arrs, node |-> w.got]

\* writeCloser.Close
Close(h) ==
    /\ h \in 1..Len(writers)
    /\ writers[h].closes < load.closes
    /\ LET w == writers[h]
           r == IF w.closeFn = "addNode" THEN addNode(nodes, arrays, w)
                ELSE updateNode(nodes, arrays, w)
       IN  /\ nodes' = r.ns
           /\ arrays' = r.arrs
           /\ last' = Result("Close", w.name, h, 0, "nil", NilEntries,
                             Content(arrays, w.buf))
           /\ writers' = [i \in 1..Len(writers) |->
                            IF i = h
                            THEN [w EXCEPT !.closes = @ + 1,
                                           !.sent = IF w.closes = 0
                                                    THEN Content(arrays, w.buf)
                                                    ELSE @]
                            ELSE IF writers[i].got = r.node
                                 THEN [writers[i] EXCEPT !.clean = FALSE]
                            ELSE writers[i]]
    /\ UNCHANGED <<readers, load>>

---------------------------------------------------------------------------
(* Read-side calls *)

\* MemFS.Open
Open(name) ==
    /\ nodes' = init(nodes)
    /\ LET o == fsOpen(nodes, name)
       IN  IF o.err # "nil"
           THEN /\ last' = Result("Open", name, 0, 0, o.err, NilEntries, <<>>)
                /\ UNCHANGED readers
           ELSE /\ Len(readers) < load.readers
                /\ readers' = Append(readers,
                                     [o.file EXCEPT !.snap = Content(arrays, o.file.buf)])
                /\ last' = Result("Open", name, Len(readers) + 1, 0, "nil", NilEntries, <<>>)
    /\ UNCHANGED <<arrays, writers, load>>

\* MemFS.ReadDir
ReadDir(dir) ==
    /\ nodes' = init(nodes)
    /\ LET r == fsReadDir(nodes, dir)
       IN  last' = Result("ReadDir", dir, 0, 0, r.err, r.entries, <<>>)
    /\ UNCHANGED <<arrays, writers, readers, load>>

\* MemFS.ListFiles
ListFiles(dir) ==
    /\ nodes' = init(nodes)
    /\ LET r == fsListFiles(nodes, dir)
       IN  last' = [Result("ListFiles", dir, 0, 0, r.err, NilEntries, <<>>)
                       EXCEPT !.names = r.names]
    /\ UNCHANGED <<arrays, writers, readers, load>>

\* memFile.Read and memDir.Read
FileRead(h, k) ==
    /\ h \in 1..Len(readers)
    /\ IF readers[h].kind = "memFile"
       THEN LET r == bufferRead(arrays, readers[h].buf, k)
            IN  /\ readers' = [readers EXCEPT ![h].buf = r.buf,
                                             ![h].data = @ \o r.data,
                                             ![h].eof = @ \/ r.err = "EOF"]
                /\ last' = Result("File.Read", readers[h].name, h, Len(r.data),
                                  r.err, NilEntries, r.data)
       ELSE LET r == memDirRead(readers[h], k)
            IN  /\ last' = Result("File.Read", readers[h].name, h, r.n,
                                  r.err, NilEntries, <<>>)
                /\ UNCHANGED readers
    /\ UNCHANGED <<nodes, arrays, writers, load>>

\* What a directory handle has returned so far, after a call with page size
\* n that returned page with err.
pageUsed(pn, n) ==
    IF ~pn.used THEN [used |-> TRUE, same |-> TRUE, n |-> n]
    ELSE IF pn.same /\ pn.n = n THEN pn
    ELSE [used |-> TRUE, same |-> FALSE, n |-> 0]

listed(ns, f, n, r) ==
    IF r.entries.nil THEN f
    ELSE [f EXCEPT
            !.entries = r.entries,
            !.acc = @ \o r.page.s,
            !.first = IF f.entries.nil
                      THEN memDirReadDir(ns, fsOpen(ns, f.name).file, -1).page.s
                      ELSE @,
            !.pn = pageUsed(@, n),
            !.calls = IF ~f.eof /\ n >= 1 /\ pageUsed(f.pn, n).same THEN @ + 1 ELSE @,
            !.eof = @ \/ r.err = "EOF"]

\* memFile.ReadDir and memDir.ReadDir
FileReadDir(h, n) ==
    /\ h \in 1..Len(readers)
    /\ IF readers[h].kind = "memDir"
       THEN LET r == memDirReadDir(nodes, readers[h], n)
            IN  /\ readers' = [readers EXCEPT ![h] = listed(nodes, @, n, r)]
                /\ last' = [Result("File.ReadDir", readers[h].name, h, n,
                                   r.err, r.page, <<>>)
                               EXCEPT !.rem = remaining(nodes, readers[h])]
       ELSE LET r == memFileReadDir(readers[h], n)
            IN  /\ last' = Result("File.ReadDir", readers[h].name, h, n,
                                  r.err, r.page, <<>>)
                /\ UNCHANGED readers
    /\ UNCHANGED <<nodes, arrays, writers, load>>

---------------------------------------------------------------------------
(* fs.l and the callers inside the MemFS *)

Callers == 1..MaxCallers

\* sync.RWMutex: w is the caller holding the write lock, pend the caller
\* that holds the mutex's inner writer lock and waits for the readers to
\* leave, r the callers holding the read lock.  0 is no caller.
FreeLock == [w |-> 0, pend |-> 0, r |-> {}]

\* Lock may go past the inner writer lock.
CanLock(m) == m.w = 0 /\ m.pend = 0

\* Lock: announce the writer, which keeps new readers out ...
LockPending(m, p) == [m EXCEPT !.pend = p]

\* ... and hold the lock once the readers have left.
Lock(m, p) == [m EXCEPT !.pend = 0, !.w = p]

Unlock(m) == [m EXCEPT !.w = 0]

\* RLock waits while a writer holds the lock or is announced.
CanRLock(m) == m.w = 0 /\ m.pend = 0

RLock(m, p) == [m EXCEPT !.r = @ \cup {p}]

RUnlock(m, p) == [m EXCEPT !.r = @ \ {p}]

\* Where a caller is: the call (op) with its path and handle, the locked
\* section of it (sec: "init" for fs.init(), "main" for the call's own) and
\* the place in that section (at: "call" before Lock or RLock, "wait"
\* announced as writer, "in" holding the lock).  fallback: the Create call
\* is the one Append makes for a path without a node.
At(op, name, h, sec, at, fallback) ==
    [op |-> op, name |-> name, h |-> h, sec |-> sec, at |-> at,
     fallback |-> fallback]

Idle == At("idle", <<>>, 0, "none", "none", FALSE)

\* The calls that take the read lock in their own section.
ReadLocked == {"Open", "ReadDir"}

---------------------------------------------------------------------------
(* Specifications *)

Start(l) ==
    /\ nodes = <<>>
    /\ arrays = [h \in l.writers |-> <<>>]
    /\ writers = <<>>
    /\ readers = <<>>
    /\ last = NoCall
    /\ load = l
    /\ mu = FreeLock
    /\ pc = [p \in Callers |-> Idle]
    /\ files = <<>>

\* A call on the tree-based MemFS that runs alone from start to end: no other
\* caller is inside it, the lock is free before and after, and the map of the
\* map-based MemFS is not involved.
Serial == UNCHANGED <<mu, pc, files>>

WriteOps ==
    \/ \E name \in load.names : Create(name) /\ Serial
    \/ \E name \in load.names : FsAppend(name) /\ Serial
    \/ \E h \in load.writers : \E b \in load.bytes[h] : Write(h, <<b>>) /\ Serial
    \/ \E h \in load.writers : Close(h) /\ Serial

\* The tree and the calls of MemFS itself.
Init == Start(TreeLoad)

Next ==
    \/ WriteOps
    \/ \E name \in load.names : Open(name) /\ Serial
    \/ \E name \in load.names : ReadDir(name) /\ Serial
    \/ \E name \in load.names : ListFiles(name) /\ Serial

Spec == Init /\ [][Next]_vars

\* One file, several writers and a reader: what the handles share.
InitContent == Start(ContentLoad)

NextContent ==
    \/ WriteOps
    \/ \E name \in load.names : Open(name) /\ Serial
    \/ \E h \in 1..load.readers, k \in ReadSizes : FileRead(h, k) /\ Serial

SpecContent == InitContent /\ [][NextContent]_vars

\* One file and two writers that may each be closed again.
InitClose == Start(CloseLoad)

SpecClose == InitClose /\ [][NextContent]_vars

\* Directory and file handles over a changing tree.
InitList == Start(ListLoad)

NextList ==
    \/ WriteOps
    \/ \E name \in load.names : Open(name) /\ Serial
    \/ \E h \in 1..load.readers, k \in ReadSizes : FileRead(h, k) /\ Serial
    \/ \E h \in 1..load.readers, n \in PageSizes : FileReadDir(h, n) /\ Serial
    \/ \E name \in load.names : ListFiles(name) /\ Serial

SpecList == InitList /\ [][NextList]_vars

\* Two handles listing one directory while it grows.
InitCursors == Start(CursorLoad)

NextCursors ==
    \/ WriteOps
    \/ \E name \in load.names : Open(name) /\ Serial
    \/ \E h \in 1..load.readers, n \in CursorPages : FileReadDir(h, n) /\ Serial

SpecCursors == InitCursors /\ [][NextCursors]_vars

---------------------------------------------------------------------------
(* Concurrent callers: every call as the locked sections it consists of *)

\* The callers inside a call that will hand out a write handle, a File
\* handle, or close writer h.
Creating == {q \in Callers : pc[q].op \in {"Create", "Append"}}
Opening == {q \in Callers : pc[q].op = "Open"}
Closing(h) == {q \in Callers : pc[q].op = "Close" /\ pc[q].h = h}

\* A caller enters a call.  Create, Append, Open and ReadDir begin with
\* fs.init(); Close begins with the Lock of the handle's closure.
Enter(p, c) ==
    /\ pc[p] = Idle
    /\ pc' = [pc EXCEPT ![p] = c]
    /\ UNCHANGED <<nodes, arrays, writers, readers, last, load, mu, files>>

CallCreate(p, name) ==
    /\ Len(writers) + Cardinality(Creating) < Cardinality(load.writers)
    /\ Enter(p, At("Create", name, 0, "init", "call", FALSE))

CallAppend(p, name) ==
    /\ Len(writers) + Cardinality(Creating) < Cardinality(load.writers)
    /\ Enter(p, At("Append", name, 0, "init", "call", FALSE))

CallOpen(p, name) ==
    /\ Len(readers) + Cardinality(Opening) < load.readers
    /\ Enter(p, At("Open", name, 0, "init", "call", FALSE))

CallReadDir(p, name) == Enter(p, At("ReadDir", name, 0, "init", "call", FALSE))

CallClose(p, h) ==
    /\ h \in 1..Len(writers)
    /\ writers[h].closes + Cardinality(Closing(h)) < load.closes
    /\ Enter(p, At("Close", writers[h].name, h, "main", "call", FALSE))

\* fs.l.Lock() of fs.init() and of Create, Append and the closures: past
\* the inner writer lock, then past the readers.
LockCall(p) ==
    /\ pc[p].at = "call"
    /\ pc[p].sec = "init" \/ pc[p].op \notin ReadLocked
    /\ CanLock(mu)
    /\ mu' = LockPending(mu, p)
    /\ pc' = [pc EXCEPT ![p].at = "wait"]
    /\ UNCHANGED <<nodes, arrays, writers, readers, last, load, files>>

LockEnter(p) ==
    /\ pc[p].at = "wait"
    /\ mu.r = {}
    /\ mu' = Lock(mu, p)
    /\ pc' = [pc EXCEPT ![p].at = "in"]
    /\ UNCHANGED <<nodes, arrays, writers, readers, last, load, files>>

\* fs.l.RLock() of Open and ReadDir.
RLockEnter(p) ==
    /\ pc[p].at = "call"
    /\ pc[p].sec = "main"
    /\ pc[p].op \in ReadLocked
    /\ CanRLock(mu)
    /\ mu' = RLock(mu, p)
    /\ pc' = [pc EXCEPT ![p].at = "in"]
    /\ UNCHANGED <<nodes, arrays, writers, readers, last, load, files>>

\* The caller holds the lock in the call's own section.
InMain(p, op) == pc[p].op = op /\ pc[p].sec = "main" /\ pc[p].at = "in"

\* fs.init() from its Lock to its Unlock.
InitBody(p) ==
    /\ pc[p].sec = "init"
    /\ pc[p].at = "in"
    /\ nodes' = init(nodes)
    /\ mu' = Unlock(mu)
    /\ pc' = [pc EXCEPT ![p].sec = "main", ![p].at = "call"]
    /\ UNCHANGED <<arrays, writers, readers, last, load, files>>

\* What MemFS.Create does to the store when Append calls it for a path
\* without a node: the handle is the one appendWriter makes for such a path.
createForAppend(name) ==
    /\ nodes' = init(nodes)
    /\ writers' = Append(writers, newWriter(name, "addNode", 0, "Append", <<>>, FALSE))
    /\ last' = Result("Append", name, Len(writers) + 1, 0, "nil", NilEntries, <<>>)
    /\ UNCHANGED <<arrays, readers, load>>

\* MemFS.Create returning with fs.l still locked.
CreateBodyHoldsLock(p) ==
    /\ InMain(p, "Create")
    /\ IF pc[p].fallback THEN createForAppend(pc[p].name) ELSE Create(pc[p].name)
    /\ mu' = mu
    /\ pc' = [pc EXCEPT ![p] = Idle]
    /\ UNCHANGED files

\* MemFS.Create from its Lock to the deferred Unlock.
CreateBody(p) ==
    /\ InMain(p, "Create")
    /\ IF pc[p].fallback THEN createForAppend(pc[p].name) ELSE Create(pc[p].name)
    /\ mu' = Unlock(mu)
    /\ pc' = [pc EXCEPT ![p] = Idle]
    /\ UNCHANGED files

\* MemFS.Append from its Lock to its Unlock, and what follows without the
\* lock: the handle with updateNode, or the call of fs.Create.
AppendBody(p) ==
    /\ InMain(p, "Append")
    /\ mu' = Unlock(mu)
    /\ IF Get(nodes, Root, nameToPath(pc[p].name)) # 0
       THEN /\ FsAppend(pc[p].name)
            /\ pc' = [pc EXCEPT ![p] = Idle]
       ELSE /\ pc' = [pc EXCEPT ![p] = At("Create", pc[p].name, 0, "init", "call", TRUE)]
            /\ UNCHANGED <<nodes, arrays, writers, readers, last, load>>
    /\ UNCHANGED files

\* The closure of a write handle from its Lock to the deferred Unlock.
CloseBody(p) ==
    /\ InMain(p, "Close")
    /\ Close(pc[p].h)
    /\ mu' = Unlock(mu)
    /\ pc' = [pc EXCEPT ![p] = Idle]
    /\ UNCHANGED files

\* MemFS.Open from its RLock to the deferred RUnlock.
OpenBody(p) ==
    /\ InMain(p, "Open")
    /\ Open(pc[p].name)
    /\ mu' = RUnlock(mu, p)
    /\ pc' = [pc EXCEPT ![p] = Idle]
    /\ UNCHANGED files

\* MemFS.ReadDir from its RLock to the deferred RUnlock.
ReadDirBody(p) ==
    /\ InMain(p, "ReadDir")
    /\ ReadDir(pc[p].name)
    /\ mu' = RUnlock(mu, p)
    /\ pc' = [pc EXCEPT ![p] = Idle]
    /\ UNCHANGED files

\* A step of caller p that needs no lock it does not hold.
Inside(p) ==
    \/ InitBody(p)
    \/ CreateBody(p)
    \/ AppendBody(p)
    \/ CloseBody(p)
    \/ OpenBody(p)
    \/ ReadDirBody(p)

InitLock == Start(LockLoad)

NextLock ==
    \/ \E p \in Callers, name \in load.names : CallCreate(p, name)
    \/ \E p \in Callers, name \in load.names : CallAppend(p, name)
    \/ \E p \in Callers, name \in load.names : CallOpen(p, name)
    \/ \E p \in Callers, name \in load.names : CallReadDir(p, name)
    \/ \E p \in Callers, h \in load.writers : CallClose(p, h)
    \/ \E p \in Callers : LockCall(p)
    \/ \E p \in Callers : LockEnter(p)
    \/ \E p \in Callers : RLockEnter(p)
    \/ \E p \in Callers : Inside(p)

\* The scheduler runs every caller that can take a step, and the mutex
\* hands the lock to every caller that keeps asking for it: sync.Mutex
\* turns to handing over in turn when a waiter starves, and Unlock of the
\* RWMutex lets the waiting readers in before the next writer.
FairLock ==
    \A p \in Callers :
        /\ WF_vars(Inside(p))
        /\ WF_vars(LockEnter(p))
        /\ SF_vars(LockCall(p))
        /\ SF_vars(RLockEnter(p))

SpecLock == InitLock /\ [][NextLock]_vars /\ FairLock

---------------------------------------------------------------------------
(* The map-based MemFS of mem_fs.go: a flat map keyed by full path *)

\* The workload of the map-based store: paths that share character prefixes
\* with and without a "/" behind them.
MapLoad ==
    [names |-> { <<"a", "b">>, <<"a", "/", "b">>, <<"a", "b", "b", "/", "a">> },
     bytes |-> [h \in 1..2 |-> {11}], writers |-> 1..2, readers |-> MaxReaders,
     buf |-> MaxBuf,
     closes |-> MaxCloses]

\* The paths passed to Open, ReadDir and Delete: the stored ones, their
\* directories, and character prefixes of them.
MapQueries ==
    MapLoad.names \cup { <<"a">>, <<"a", "b", "b">>, <<"b">> }

\* strings.HasPrefix
HasPrefix(s, prefix) ==
    Len(s) >= Len(prefix) /\ SubSeq(s, 1, Len(prefix)) = prefix

\* strings.SplitN(s, "/", 2): s cut at its first "/", if it has one.
SplitN2(s) ==
    LET at == {i \in 1..Len(s) : s[i] = "/"}
    IN  IF at = {} THEN <<s>>
        ELSE LET i == CHOOSE i \in at : \A j \in at : i <= j
             IN  <<SubSeq(s, 1, i - 1), SubSeq(s, i + 1, Len(s))>>

\* The dirEntry MemFS.ReadDir makes of a stored path that has dir as a
\* prefix: sub := name[n+1:], split at the first "/".
mapEntry(name, dir) ==
    LET sub == SubSeq(name, Len(dir) + 2, Len(name))
        split == SplitN2(sub)
    IN  [name |-> split[1], isDir |-> Len(split) > 1]

RECURSIVE setToSeq(_)
setToSeq(S) ==
    IF S = {} THEN <<>>
    ELSE LET x == CHOOSE x \in S : TRUE IN <<x>> \o setToSeq(S \ {x})

\* MemFS.ReadDir as a function of the map: the set of [err, entries] it can
\* return.  The entries are collected in a map keyed by entry name while
\* ranging over fs.m, so of several entries with one name the one the
\* iteration meets last stays, and the iteration order is not fixed.
mapReadDir(fm, dir) ==
    IF dir \in DOMAIN fm
    THEN {[err |-> "ErrNotFound", entries |-> NilEntries]}
    ELSE LET all == {mapEntry(name, dir) : name \in {x \in DOMAIN fm : HasPrefix(x, dir)}}
             keys == {e.name : e \in all}
         IN  IF all = {}
             THEN {[err |-> "ErrNotFound", entries |-> NilEntries]}
             ELSE {[err |-> "nil",
                    entries |-> [nil |-> FALSE,
                                 s |-> sortEntries(setToSeq({kept[k] : k \in keys}))]] :
                     kept \in {f \in [keys -> all] : \A k \in keys : f[k].name = k}}

\* buf.Bytes() of the stored buffer b: nil for a buffer never written.
mapBytes(arrs, b) ==
    IF arrs[b] = <<>> THEN NilSlice ELSE [arr |-> b, len |-> Len(arrs[b])]

\* MemFS.Open as a function of the map: [err, kind, file].
mapOpen(fm, arrs, name) ==
    IF name \in DOMAIN fm
    THEN [err |-> "nil", kind |-> "memFile",
          file |-> newFile("memFile", name, mapBytes(arrs, fm[name]))]
    ELSE IF \E filepath \in DOMAIN fm : HasPrefix(filepath, name)
    THEN [err |-> "nil", kind |-> "memDir", file |-> newFile("memDir", name, NilSlice)]
    ELSE [err |-> "ErrNotFound", kind |-> "nil", file |-> NoCall]

\* memDir.ReadDir(n) of mem_fs.go on handle r, given what dir.fs.ReadDir
\* returns if the handle has to ask: [page, err, entries].
mapMemDirReadDir(fetched, r, n) ==
    LET got == IF r.entries.nil THEN fetched
               ELSE [err |-> "nil", entries |-> r.entries]
        cur == got.entries
        size == IF n < 0 \/ n > Len(cur.s) THEN Len(cur.s) ELSE n
    IN  IF got.err # "nil"
        THEN [page |-> NilEntries, err |-> got.err, entries |-> r.entries]
        ELSE IF Len(cur.s) = 0
        THEN [page |-> cur, err |-> IF n < 0 THEN "nil" ELSE "EOF", entries |-> cur]
        ELSE [page |-> [nil |-> FALSE, s |-> SubSeq(cur.s, 1, size)],
              err |-> "nil",
              entries |-> [nil |-> FALSE, s |-> SubSeq(cur.s, size + 1, Len(cur.s))]]

\* A write handle of the map-based store: writeCloser{w: buf}, no closeFn.
mapWriter(name, b) == [name |-> name, buf |-> b]

\* The tree-based store and the lock's bookkeeping take no part.
MapOnly == UNCHANGED <<nodes, mu, pc>>

\* MemFS.Create: a new buffer is stored under name at once, in place of
\* the one that was there.  The buffer of handle h is arrays[h].
MapCreate(name) ==
    /\ Len(writers) < Cardinality(load.writers)
    /\ files' = [x \in DOMAIN files \cup {name} |->
                    IF x = name THEN Len(writers) + 1 ELSE files[x]]
    /\ writers' = Append(writers, mapWriter(name, Len(writers) + 1))
    /\ last' = Result("Create", name, Len(writers) + 1, 0, "nil", NilEntries, <<>>)
    /\ UNCHANGED <<arrays, readers, load>>
    /\ MapOnly

\* MemFS.Append: a handle on the stored buffer, or Create.
MapAppend(name) ==
    /\ Len(writers) < Cardinality(load.writers)
    /\ IF name \in DOMAIN files
       THEN /\ writers' = Append(writers, mapWriter(name, files[name]))
            /\ UNCHANGED files
       ELSE /\ files' = [x \in DOMAIN files \cup {name} |->
                            IF x = name THEN Len(writers) + 1 ELSE files[x]]
            /\ writers' = Append(writers, mapWriter(name, Len(writers) + 1))
    /\ last' = Result("Append", name, Len(writers) + 1, 0, "nil", NilEntries, <<>>)
    /\ UNCHANGED <<arrays, readers, load>>
    /\ MapOnly

\* writeCloser.Write: bytes.Buffer.Write on the handle's buffer.
MapWrite(h, p) ==
    /\ h \in 1..Len(writers)
    /\ Len(arrays[writers[h].buf]) + Len(p) <= load.buf
    /\ arrays' = [arrays EXCEPT ![writers[h].buf] = @ \o p]
    /\ last' = Result("Write", writers[h].name, h, Len(p), "nil", NilEntries, p)
    /\ UNCHANGED <<writers, readers, load, files>>
    /\ MapOnly

\* writeCloser.Close with closeFn = nil.
MapClose(h) ==
    /\ h \in 1..Len(writers)
    /\ last' = Result("Close", writers[h].name, h, 0, "nil", NilEntries,
                      arrays[writers[h].buf])
    /\ UNCHANGED <<arrays, writers, readers, load, files>>
    /\ MapOnly

\* MemFS.Delete
MapDelete(name) ==
    /\ files' = [x \in DOMAIN files \ {name} |-> files[x]]
    /\ last' = Result("Delete", name, 0, 0, "nil", NilEntries, <<>>)
    /\ UNCHANGED <<arrays, writers, readers, load>>
    /\ MapOnly

\* MemFS.Open
MapOpen(name) ==
    /\ LET o == mapOpen(files, arrays, name)
       IN  IF o.err # "nil"
           THEN /\ last' = Result("Open", name, 0, 0, o.err, NilEntries, <<>>)
                /\ UNCHANGED readers
           ELSE /\ Len(readers) < load.readers
                /\ readers' = Append(readers,
                                     [o.file EXCEPT !.snap = Content(arrays, o.file.buf)])
                /\ last' = Result("Open", name, Len(readers) + 1, 0, "nil", NilEntries, <<>>)
    /\ UNCHANGED <<arrays, writers, load, files>>
    /\ MapOnly

\* MemFS.ReadDir
MapReadDir(dir) ==
    /\ \E r \in mapReadDir(files, dir) :
          last' = Result("ReadDir", dir, 0, 0, r.err, r.entries, <<>>)
    /\ UNCHANGED <<arrays, writers, readers, load, files>>
    /\ MapOnly

\* memFile.ReadDir and memDir.ReadDir
MapFileReadDir(h, n) ==
    /\ h \in 1..Len(readers)
    /\ IF readers[h].kind = "memDir"
       THEN \E fetched \in mapReadDir(files, readers[h].name) :
               LET r == mapMemDirReadDir(fetched, readers[h], n)
               IN  /\ readers' = [readers EXCEPT ![h].entries = r.entries]
                   /\ last' = Result("File.ReadDir", readers[h].name, h, n,
                                     r.err, r.page, <<>>)
       ELSE LET r == memFileReadDir(readers[h], n)
            IN  /\ last' = Result("File.ReadDir", readers[h].name, h, n,
                                  r.err, r.page, <<>>)
                /\ UNCHANGED readers
    /\ UNCHANGED <<arrays, writers, load, files>>
    /\ MapOnly

InitMap == Start(MapLoad)

NextMap ==
    \/ \E name \in load.names : MapCreate(name)
    \/ \E name \in load.names : MapAppend(name)
    \/ \E h \in load.writers : \E p \in load.bytes[h] : MapWrite(h, <<p>>)
    \/ \E h \in load.writers : MapClose(h)
    \/ \E name \in load.names : MapDelete(name)
    \/ \E name \in MapQueries : MapOpen(name)
    \/ \E name \in MapQueries : MapReadDir(name)
    \/ \E h \in 1..load.readers, n \in CursorPages : MapFileReadDir(h, n)
    \/ \E h \in 1..load.readers, k \in ReadSizes : FileRead(h, k) /\ Serial

SpecMap == InitMap /\ [][NextMap]_vars

---------------------------------------------------------------------------
(* Properties *)

CommittedBy(h) == writers[h].closes >= 1

\* The handle whose Close was the most recent call.
JustClosed(h) == last.op = "Close" /\ last.h = h

\* C1: right after a Create handle for p is closed, Open(p) succeeds and a
\* full read returns exactly the bytes written to that handle, for every
\* path p (this is the claim as stated; it fails for paths with ".."
\* or "." segments that the write path stores under literal names).
C1_CreateThenReadBack ==
    \A h \in 1..Len(writers) :
        (JustClosed(h) /\ writers[h].origin = "Create")
            => OpenReadAll(nodes, arrays, writers[h].name)
                 = [err |-> "nil", bytes |-> last.bytes]

\* The step just taken is the first Close of writer h.
FirstCloseStep(h) ==
    /\ h \in 1..Len(writers)
    /\ writers[h].closes = 0
    /\ writers'[h].closes = 1

\* C2: when p named an existing file with content C as Append(p) was called
\* and no other handle has committed to p since, closing the handle with
\* bytes B leaves p reading C followed by B and every other file as it was
\* (this is the claim as stated; a Write on an already closed handle whose
\* buffer array the file shares changes C without a commit).
C2_AppendConcatenates ==
    [][\A h \in 1..Len(writers) :
          (/\ FirstCloseStep(h)
           /\ writers[h].closeFn = "updateNode"
           /\ writers[h].wasFile
           /\ writers[h].clean)
          => /\ OpenReadAll(nodes', arrays', writers[h].name)
                  = [err |-> "nil",
                     bytes |-> writers[h].snap \o Content(arrays, writers[h].buf)]
             /\ \A n \in 1..Len(nodes) :
                    n # writers[h].got
                    => Content(arrays', nodes'[n].B) = Content(arrays, nodes[n].B)]_vars

\* The step just taken is Append(name) returning a new handle.
AppendStep(name) ==
    /\ Len(writers') = Len(writers) + 1
    /\ last'.op = "Append"
    /\ last'.name = name

\* C3: when no node exists at p as Append(p) is called, the call does to the
\* store what Create(p) does and returns a handle that is a Create handle in
\* everything but the call that made it, and closing it does what closing
\* a Create handle with the same buffer does.
C3_AppendMissingIsCreate ==
    [][/\ \A name \in load.names :
             (AppendStep(name) /\ Get(init(nodes), Root, nameToPath(name)) = 0)
             => /\ nodes' = init(nodes)
                /\ arrays' = arrays
                /\ [writers'[Len(writers')] EXCEPT !.origin = "Create"]
                     = newWriter(name, "addNode", 0, "Create", <<>>, FALSE)
       /\ \A h \in 1..Len(writers) :
             (FirstCloseStep(h) /\ writers[h].origin = "Append" /\ writers[h].got = 0)
             => LET c == addNode(nodes, arrays, [writers[h] EXCEPT !.origin = "Create"])
                IN  nodes' = c.ns /\ arrays' = c.arrs]_vars

\* An Append handle for a path that did not exist was written and closed,
\* and the path now reads the bytes written.
C3_Witness ==
    \E h \in 1..Len(writers) :
        /\ JustClosed(h)
        /\ writers[h].origin = "Append"
        /\ writers[h].got = 0
        /\ last.bytes # <<>>
        /\ OpenReadAll(nodes, arrays, writers[h].name) = [err |-> "nil", bytes |-> last.bytes]

HasDots(name) ==
    \E i \in 1..Len(nameToPath(name)) : nameToPath(name)[i] \in {Dot, DotDot}

\* name is p or a path beneath p.
AtOrBeneath(name, p) ==
    \/ name = p
    \/ Len(name) > Len(p) /\ SubSeq(name, 1, Len(p) + 1) = p \o <<"/">>

\* No write handle for p, or for a path beneath p, has been closed.
NeverWritten(p) ==
    \A h \in 1..Len(writers) : CommittedBy(h) => ~AtOrBeneath(writers[h].name, p)

\* C4 as stated: Open(p) fails with ErrNotFound and returns no handle for
\* every path p never written.
C4_Original ==
    (last.op = "Open" /\ NeverWritten(last.name))
        => last.err = "ErrNotFound" /\ last.h = 0

\* C4 amended: Open(p) fails with ErrNotFound and returns no handle for
\* every path p never written none of whose segments is "." or "..".
C4_NeverWrittenNotFound ==
    (last.op = "Open" /\ NeverWritten(last.name) /\ ~HasDots(last.name))
        => last.err = "ErrNotFound" /\ last.h = 0

\* Open failed on a never-written plain path of a store that other paths
\* were written to.
C4_Witness ==
    /\ last.op = "Open"
    /\ NeverWritten(last.name)
    /\ ~HasDots(last.name)
    /\ last.err = "ErrNotFound"
    /\ \E h \in 1..Len(writers) : CommittedBy(h)

\* What Open, ReadAll and ReadDir return for a name.
Observed(ns, arrs, name) ==
    [open |-> fsOpen(ns, name).kind,
     bytes |-> OpenReadAll(ns, arrs, name),
     dir |-> fsReadDir(ns, name)]

\* The tree as a reader can see it: every node's name, place, kind, children
\* and bytes.
Tree(ns, arrs) ==
    [n \in 1..Len(init(ns)) |->
        [Name |-> init(ns)[n].Name, Parent |-> init(ns)[n].Parent,
         Children |-> init(ns)[n].Children, dir |-> IsDirectory(init(ns), n),
         bytes |-> Content(arrs, init(ns)[n].B)]]

\* The step just taken returned a new write handle.
NewHandleStep ==
    /\ Len(writers') = Len(writers) + 1
    /\ last'.op \in {"Create", "Append"}

\* The step just taken is a Write on handle h.
WriteStep(h) ==
    /\ h \in 1..Len(writers)
    /\ last'.op = "Write"
    /\ last'.h = h
    /\ writers'[h].buf # writers[h].buf

\* C5: from the call that returns a write handle up to that handle's Close,
\* nothing the handle does shows: the Create or Append call and every Write
\* on the handle while it is not closed leave the tree, and what Open,
\* ReadAll and ReadDir return for every name, as they were.
C5_CommitOnClose ==
    [][(\/ NewHandleStep
        \/ \E h \in 1..Len(writers) : WriteStep(h) /\ ~CommittedBy(h))
       => /\ Tree(nodes', arrays') = Tree(nodes, arrays)
          /\ \A name \in load.names :
                Observed(nodes', arrays', name) = Observed(nodes, arrays, name)]_vars

\* A handle holds written bytes and is not closed, and Open of its path has
\* just failed with ErrNotFound.
C5_Witness ==
    \E h \in 1..Len(writers) :
        /\ ~CommittedBy(h)
        /\ writers[h].buf.len > 0
        /\ last.op = "Open"
        /\ last.name = writers[h].name
        /\ last.err = "ErrNotFound"

\* The nodes whose parent is d.
ChildrenOf(ns, d) == {n \in 1..Len(ns) : ns[n].Parent = d}

\* C6: ReadDir(d) on an existing directory d succeeds and returns exactly
\* one entry per direct child of d and none for any other node, each with
\* isDir telling whether that child is a directory, in strictly ascending
\* order of name.
C6_ReadDirListsChildren ==
    LET ns == init(nodes)
        d == Get(ns, Root, nameToPath(last.name))
        es == last.entries.s
    IN  (last.op = "ReadDir" /\ d # 0 /\ IsDirectory(ns, d))
        => /\ last.err = "nil"
           /\ ~last.entries.nil
           /\ Len(es) = Cardinality(ChildrenOf(ns, d))
           /\ \A n \in ChildrenOf(ns, d) :
                 \E i \in 1..Len(es) :
                     es[i] = [name |-> ns[n].Name, isDir |-> IsDirectory(ns, n)]
           /\ \A i \in 1..Len(es) :
                 \E n \in ChildrenOf(ns, d) : es[i].name = ns[n].Name
           /\ \A i, j \in 1..Len(es) : i < j => StrLess(es[i].name, es[j].name)

\* ReadDir has listed a directory holding a subdirectory and a file that
\* were created in the opposite of their name order, the subdirectory having
\* a child of its own.
C6_Witness ==
    LET ns == init(nodes)
        d == Get(ns, Root, nameToPath(last.name))
    IN  /\ last.op = "ReadDir"
        /\ last.err = "nil"
        /\ Len(last.entries.s) >= 2
        /\ \E i, j \in 1..Len(last.entries.s) :
              last.entries.s[i].isDir /\ ~last.entries.s[j].isDir
        /\ \E m, n \in ChildrenOf(ns, d) :
              /\ m < n
              /\ StrLess(ns[n].Name, ns[m].Name)
              /\ ChildrenOf(ns, m) # {}

\* C7 as stated: ReadDir(p) fails with NotFound when no node exists at p and
\* with the distinct error NotADirectory when p names a file.
C7_Original ==
    LET ns == init(nodes)
        d == Get(ns, Root, nameToPath(last.name))
    IN  last.op = "ReadDir"
        => /\ d = 0 => last.err = "ErrNotFound"
           /\ (d # 0 /\ ~IsDirectory(ns, d)) => last.err = "ErrNotADirectory"

\* C7 amended: ReadDir(p) fails with ErrNotFound and returns no entries both
\* when no node exists at p and when p names a file; a caller cannot tell
\* the two apart.
C7_ReadDirNotFound ==
    LET ns == init(nodes)
        d == Get(ns, Root, nameToPath(last.name))
    IN  (last.op = "ReadDir" /\ (d = 0 \/ ~IsDirectory(ns, d)))
        => last.err = "ErrNotFound" /\ last.entries.nil

\* ReadDir has just failed on a path that names a file.
C7_Witness ==
    LET ns == init(nodes)
        d == Get(ns, Root, nameToPath(last.name))
    IN  /\ last.op = "ReadDir"
        /\ d # 0
        /\ ~IsDirectory(ns, d)
        /\ last.err = "ErrNotFound"

\* The directory handles that have taken their snapshot.
Listing(h) == readers[h].kind = "memDir" /\ ~readers[h].entries.nil

\* The handle has only ever been asked for pages of one size n >= 1.
Paginated(h) ==
    /\ Listing(h)
    /\ readers[h].pn.used
    /\ readers[h].pn.same
    /\ readers[h].pn.n >= 1

\* The calls it takes to page through len entries n at a time, the call
\* that returns io.EOF included.
CallsFor(len, n) == (len + n - 1) \div n + 1

\* C8: for every directory and page size n >= 1, calling ReadDir(n) on a
\* fresh directory handle until it returns io.EOF ends after finitely many
\* calls (never more than it takes to page through the listing), and the
\* pages returned, concatenated, are entry for entry and in order what one
\* ReadDir(-1) on another fresh handle of the directory returns.
C8_PagesConcatenateToFull ==
    \A h \in 1..Len(readers) :
        Paginated(h)
        => /\ readers[h].calls <= CallsFor(Len(readers[h].first), readers[h].pn.n)
           /\ readers[h].eof
              => /\ readers[h].acc = readers[h].first
                 /\ readers[h].calls = CallsFor(Len(readers[h].first), readers[h].pn.n)

\* A handle has paged one entry at a time through a directory of two
\* entries and has returned io.EOF.
C8_Witness ==
    \E h \in 1..Len(readers) :
        /\ Paginated(h)
        /\ readers[h].pn.n = 1
        /\ readers[h].eof
        /\ Len(readers[h].acc) >= 2
        /\ readers[h].calls = 3

\* C9: a call ReadDir(n) on a directory handle with r entries left in its
\* snapshot returns, for n < 0, all r of them with no error (also when
\* r = 0) and leaves none; for n >= 0 it returns exactly min(n, r) entries,
\* leaves r less that many, and returns io.EOF if and only if r = 0. What a
\* handle has returned so far followed by what it has left is always its
\* snapshot: no entry is returned twice or skipped.
C9_PerCallContract ==
    /\ \A h \in 1..Len(readers) :
          Listing(h)
          => readers[h].acc \o readers[h].entries.s = readers[h].first
    /\ (last.op = "File.ReadDir" /\ last.h \in 1..Len(readers) /\ Listing(last.h))
       => LET got == Len(last.entries.s)
              left == Len(readers[last.h].entries.s)
          IN  IF last.n < 0
              THEN /\ last.err = "nil"
                   /\ got = last.rem
                   /\ left = 0
              ELSE /\ last.err \in {"nil", "EOF"}
                   /\ got = Min(last.n, last.rem)
                   /\ left = last.rem - got
                   /\ last.err = "EOF" <=> last.rem = 0

\* A handle with one entry left of two has just been asked for two and has
\* returned the one, with no error.
C9_Witness ==
    /\ last.op = "File.ReadDir"
    /\ last.h \in 1..Len(readers)
    /\ Listing(last.h)
    /\ last.n = 2
    /\ last.rem = 1
    /\ Len(last.entries.s) = 1
    /\ Len(readers[last.h].first) = 2
    /\ last.err = "nil"

\* C10: a handle is a file handle or a directory handle from Open on and
\* stays so. ReadDir(n) on a file handle fails for every n and returns no
\* entries; Read on a directory handle fails for every buffer and reads 0
\* bytes. Neither call changes the handle, any other handle or the tree.
C10_OneCapability ==
    [][\A h \in 1..Len(readers) :
          /\ readers'[h].kind = readers[h].kind
          /\ \A n \in PageSizes :
                (readers[h].kind = "memFile" /\ FileReadDir(h, n))
                => /\ last'.err = "path is a file"
                   /\ last'.entries = NilEntries
                   /\ UNCHANGED <<nodes, arrays, writers, readers>>
          /\ \A k \in ReadSizes :
                (readers[h].kind = "memDir" /\ FileRead(h, k))
                => /\ last'.err = "path is a directory"
                   /\ last'.n = 0
                   /\ last'.bytes = <<>>
                   /\ UNCHANGED <<nodes, arrays, writers, readers>>]_vars

\* ReadDir has just failed on a file handle that has read part of its file.
C10_Witness ==
    /\ last.op = "File.ReadDir"
    /\ last.h \in 1..Len(readers)
    /\ readers[last.h].kind = "memFile"
    /\ readers[last.h].buf.off >= 1
    /\ readers[last.h].buf.off < readers[last.h].buf.len
    /\ last.err = "path is a file"

\* The names of the entries of a listing that are files, in its order.
FileNames(es) ==
    LET fs == SelectSeq(es, LAMBDA e : ~e.isDir)
    IN  [i \in 1..Len(fs) |-> fs[i].name]

\* C11: ListFiles(d) is ReadDir(d) restricted to files: it fails as
\* ReadDir(d) fails (ErrNotFound when no node exists at d, an error when d
\* names a file), and on success returns exactly the base names of the
\* direct children of d that are files (this is the claim as stated; the
\* code returns the full path of d and of every node beneath it, and it
\* panics when no node exists at d).
C11_ListFilesIsReadDirOfFiles ==
    LET rd == fsReadDir(nodes, last.name)
    IN  last.op = "ListFiles"
        => IF rd.err # "nil"
           THEN last.err = rd.err /\ last.names = <<>>
           ELSE last.err = "nil" /\ last.names = FileNames(rd.entries.s)

\* The step just taken is the first Close of an Append handle h that found
\* a file at its path, after another handle has committed to that file.
RacedAppendClose(h) ==
    /\ FirstCloseStep(h)
    /\ writers[h].closeFn = "updateNode"
    /\ writers[h].wasFile
    /\ ~writers[h].clean

\* C12 as stated: such a Close leaves p reading the content it had when
\* Append was called followed by the handle's bytes; what the other handle
\* committed in between is lost.
C12_Original ==
    [][\A h \in 1..Len(writers) :
          RacedAppendClose(h)
          => OpenReadAll(nodes', arrays', writers[h].name)
                = [err |-> "nil",
                   bytes |-> writers[h].snap \o Content(arrays, writers[h].buf)]]_vars

\* C12 amended: such a Close leaves p reading the content it had just
\* before the Close followed by the handle's bytes; what the other handle
\* committed in between is kept.
C12_AppendsToCurrent ==
    [][\A h \in 1..Len(writers) :
          RacedAppendClose(h)
          => OpenReadAll(nodes', arrays', writers[h].name)
                = [err |-> "nil",
                   bytes |-> OpenReadAll(nodes, arrays, writers[h].name).bytes
                                \o Content(arrays, writers[h].buf)]]_vars

\* An Append handle that found content and holds bytes has just been closed
\* after another handle added to the file, which now reads neither the old
\* content followed by the handle's bytes nor the handle's bytes alone.
C12_Witness ==
    \E h \in 1..Len(writers) :
        /\ JustClosed(h)
        /\ writers[h].closeFn = "updateNode"
        /\ writers[h].wasFile
        /\ ~writers[h].clean
        /\ writers[h].snap # <<>>
        /\ last.bytes # <<>>
        /\ Len(OpenReadAll(nodes, arrays, writers[h].name).bytes)
              > Len(writers[h].snap) + Len(last.bytes)

\* Writer h was obtained by Create, has been closed and was not written to
\* afterwards.
CreatedAndClosed(h) ==
    /\ writers[h].origin = "Create"
    /\ CommittedBy(h)
    /\ ~writers[h].late

\* C13: for any two distinct paths p and q, once a Create handle for p and
\* a Create handle for q have both been written and closed, in whatever
\* order their calls were interleaved, Open(p) reads the bytes written to
\* the one and Open(q) the bytes written to the other (this is the claim as
\* stated; it fails for paths with "." or ".." segments, which the write
\* path stores under literal names).
C13_DistinctPathsKeepContent ==
    \A g, h \in 1..Len(writers) :
        (/\ g # h
         /\ writers[g].name # writers[h].name
         /\ CreatedAndClosed(g)
         /\ CreatedAndClosed(h))
        => /\ OpenReadAll(nodes, arrays, writers[g].name)
                = [err |-> "nil", bytes |-> writers[g].sent]
           /\ OpenReadAll(nodes, arrays, writers[h].name)
                = [err |-> "nil", bytes |-> writers[h].sent]

\* The step just taken is a Close of writer h that was closed before.
LaterCloseStep(h) ==
    /\ h \in 1..Len(writers)
    /\ writers[h].closes >= 1
    /\ writers'[h].closes = writers[h].closes + 1

\* C14: a write handle publishes its bytes exactly once: a Close of a handle
\* that was closed before changes nothing in the tree, whether the handle
\* came from Create or from Append, even when nothing was written to it
\* after the first Close (this is the claim as stated; the code runs the
\* handle's closure again on every Close).
C14_CommitsOnce ==
    [][\A h \in 1..Len(writers) :
          (LaterCloseStep(h) /\ ~writers[h].late)
          => Tree(nodes', arrays') = Tree(nodes, arrays)]_vars

\* C15: a file handle reads the content its path had when Open returned,
\* whatever is committed to the path afterwards: the bytes it has returned
\* are always the first of that content, and all of it once Read has
\* returned io.EOF (this is the claim as stated; the handle reads the array
\* the node's bytes are in, which writers and later commits store into).
C15_ReadsContentAtOpen ==
    \A h \in 1..Len(readers) :
        readers[h].kind = "memFile"
        => /\ Len(readers[h].data) <= Len(readers[h].snap)
           /\ readers[h].data = SubSeq(readers[h].snap, 1, Len(readers[h].data))
           /\ readers[h].eof => readers[h].data = readers[h].snap

\* C16: once a directory handle has listed, every page it returns is the
\* next part of the listing it took at its first ReadDir call, whatever has
\* been committed to the directory since, and nothing but a ReadDir call on
\* the handle itself moves its cursor: not a commit, not a call on another
\* handle of the same directory.
C16_OwnSnapshotOwnCursor ==
    [][\A h \in 1..Len(readers) :
          Listing(h)
          => \/ readers'[h] = readers[h]
             \/ /\ last'.op = "File.ReadDir"
                /\ last'.h = h
                /\ last'.entries.s \o readers'[h].entries.s = readers[h].entries.s
                /\ readers'[h].first = readers[h].first
                /\ \A g \in 1..Len(readers) : g # h => readers'[g] = readers[g]]_vars

\* Two handles of one directory have listed it, one before and one after a
\* child was committed to it: the first has returned all of its listing
\* without that child, the second has the child in its listing and entries
\* left.
C16_Witness ==
    \E g, h \in 1..Len(readers) :
        /\ g # h
        /\ readers[g].name = readers[h].name
        /\ Listing(g)
        /\ Listing(h)
        /\ readers[h].eof
        /\ readers[h].acc = readers[h].first
        /\ Len(readers[g].first) > Len(readers[h].first)
        /\ Len(readers[g].entries.s) >= 1
        /\ Len(readers[h].first) >= 1

\* C17: a node's kind is fixed: no step turns a directory into a file or a
\* file into a directory, the root included (this is the claim as stated;
\* closing a handle whose path resolves to a directory stores the handle's
\* bytes in the directory's node).
C17_KindIsFixed ==
    [][\A n \in 1..Len(init(nodes)) :
          IsDirectory(init(nodes'), n) = IsDirectory(init(nodes), n)]_vars

\* C18: a node that holds content has no children: whatever node beneath
\* the root is a file before a step is without children after it (this is
\* the claim as stated; closing a Create handle for a path beneath a file
\* adds the child).
C18_FilesHaveNoChildren ==
    [][\A n \in 1..Len(nodes) :
          (n # Root /\ ~IsDirectory(nodes, n)) => nodes'[n].Children = <<>>]_vars

\* C19: in every state the children of a node have pairwise distinct names,
\* each child's Parent is the node that lists it, and every node but the
\* root is listed once by its Parent.
C19_ChildNamesUnique ==
    LET ns == init(nodes)
    IN  \A d \in 1..Len(ns) :
            /\ \A i, j \in 1..Len(ns[d].Children) :
                  i # j => ns[ns[d].Children[i]].Name # ns[ns[d].Children[j]].Name
            /\ \A i \in 1..Len(ns[d].Children) : ns[ns[d].Children[i]].Parent = d
            /\ d # Root
               => Cardinality({i \in 1..Len(ns[ns[d].Parent].Children) :
                                  ns[ns[d].Parent].Children[i] = d}) = 1

\* Two Create handles for one path beneath a directory that did not exist
\* when they were obtained have both been closed, and the tree holds the
\* root, that directory and the one file.
C19_Witness ==
    /\ \E g, h \in 1..Len(writers) :
          /\ g < h
          /\ writers[g].name = writers[h].name
          /\ Len(nameToPath(writers[g].name)) = 2
          /\ Head(nameToPath(writers[g].name)) # Dot
          /\ writers[g].closeFn = "addNode"
          /\ writers[h].closeFn = "addNode"
          /\ CommittedBy(g)
          /\ CommittedBy(h)
    /\ Len(nodes) = 3

\* C20: no call but Close changes the tree: Open, ReadDir, ListFiles, Read
\* and ReadDir on a handle, Create and Append leave every node and every
\* file's content as they were, and so does Write (this is the claim as
\* stated; a Write on a closed handle stores into the array the file's
\* bytes are in).
C20_OnlyCloseChangesTree ==
    [][last'.op # "Close" => Tree(nodes', arrays') = Tree(nodes, arrays)]_vars

\* Caller p holds fs.l or is announced as its next writer.
HasLock(p) == mu.w = p \/ mu.pend = p \/ p \in mu.r

\* C21: fs.l is held only inside a call: a caller that is in no call, or in
\* one but not in a locked section of it, holds no lock, whatever write
\* handles are open.  And every call a caller has entered (Open, ReadDir,
\* Create, Append, Close) returns, in every interleaving with the calls of
\* the other callers.
C21_LockOnlyInsideCalls ==
    /\ [](\A p \in Callers : HasLock(p) => pc[p].at \in {"wait", "in"})
    /\ []((\A p \in Callers : pc[p] = Idle) => mu = FreeLock)
    /\ \A p \in Callers : (pc[p] # Idle) ~> (pc[p] = Idle)

\* A handle from Create is open and unclosed, one caller is inside the
\* closure of another handle with the lock held, and the other caller is
\* in Open, waiting for the read lock.
C21_Witness ==
    \E p, q \in Callers :
        /\ InMain(p, "Close")
        /\ mu.w = p
        /\ pc[q].op = "Open"
        /\ pc[q].sec = "main"
        /\ pc[q].at = "call"
        /\ \E h \in 1..Len(writers) :
              /\ h # pc[p].h
              /\ writers[h].closes = 0
              /\ writers[h].origin = "Create"

\* Some node of the tree is literally named "." or "..".
LiteralDotNode ==
    \E n \in 1..Len(nodes) : nodes[n].Name \in {Dot, DotDot}

\* C22: the write path resolves "." and ".." segments as the read path
\* does: no node literally named "." or ".." ever exists, and right after a
\* Create handle for a path p with such segments is closed, the node that
\* read-resolution of p denotes exists and holds the bytes written, and
\* Open(p) succeeds and reads them (this is the claim as stated; the write
\* path adds children under the literal segment names whenever
\* read-resolution finds no node).
C22_WritePathResolvesDots ==
    /\ ~LiteralDotNode
    /\ \A h \in 1..Len(writers) :
          (JustClosed(h) /\ writers[h].origin = "Create" /\ HasDots(writers[h].name))
            => LET n == Get(nodes, Root, nameToPath(writers[h].name))
               IN  /\ n # 0
                   /\ Content(arrays, nodes[n].B) = last.bytes
                   /\ OpenReadAll(nodes, arrays, writers[h].name)
                        = [err |-> "nil", bytes |-> last.bytes]

\* Some stored file path lies beneath d on a "/" boundary.
IsMapDirectory(fm, d) ==
    \E name \in DOMAIN fm : name # d /\ AtOrBeneath(name, d)

\* e names a whole segment directly beneath d on the way to a stored path.
WholeEntry(fm, d, e) ==
    /\ e.name # <<>>
    /\ \E name \in DOMAIN fm : AtOrBeneath(name, d \o <<"/">> \o e.name)

\* C23: in the map-based MemFS a path that is not a stored file and has no
\* stored path beneath it on a "/" boundary is no directory: Open and
\* ReadDir of it return ErrNotFound, and every entry ReadDir returns has the
\* whole name of a segment beneath the directory, never an empty or a
\* truncated one (this is the claim as stated; the code takes every
\* character prefix of a stored path for a directory).
C23_DirectoryOnSegmentBoundary ==
    [][/\ (/\ last'.op \in {"Open", "ReadDir"}
           /\ last'.name \notin DOMAIN files
           /\ ~IsMapDirectory(files, last'.name))
          => last'.err = "ErrNotFound"
       /\ last'.op = "ReadDir"
          => \A i \in 1..Len(last'.entries.s) :
                WholeEntry(files, last'.name, last'.entries.s[i])]_vars

====
